---- MODULE Spec2Model ----
(***************************************************************************)
(* Model of WIB2Frame (src/WIB2Frame.hpp): a fixed-layout frame of 32-bit  *)
(* words (header, 112 packed ADC words, trailer) and its accessors         *)
(* get_adc, get_u, get_v, get_x and timestamp.                             *)
(*                                                                         *)
(* A word_t is modelled as its 32 bits, a function 0..31 -> {0,1} with bit *)
(* 0 the least significant; a uint16_t as 0..15 -> {0,1}; a uint64_t as    *)
(* 0..63 -> {0,1}.  Shifts, ORs, masks and integer conversions are done on *)
(* the bits with the widths the C++ types give them.                       *)
(***************************************************************************)
EXTENDS Integers, Sequences, FiniteSets, TLC

(***************************************************************************)
(* Bounds of the model                                                     *)
(***************************************************************************)
\* sample patterns: multipliers 0..MaxMul and offsets 0..MaxOff
MaxMul == 1
MaxOff == 1
\* timestamp header words are TsVal(0..MaxTs)
MaxTs == 6
\* arguments handed to the accessors reach ArgSlack beyond the valid ranges
ArgSlack == 2

(***************************************************************************)
(* Program constants                                                       *)
(***************************************************************************)
BITS_PER_ADC == 14
BITS_PER_WORD == 32
NUM_ADC_WORDS == 112
MAX_ADC_INDEX == 255
\* channels per group of one FEMB, in payload order U, V, X
U_CHANNELS == 40
V_CHANNELS == 40
X_CHANNELS == 48

(***************************************************************************)
(* Fixed-width unsigned integers as bit vectors                            *)
(***************************************************************************)
Pow2(n) == IF n = 0 THEN 1 ELSE 2 ^ n

\* bit k of the natural number x
BitOf(x, k) == (x \div Pow2(k)) % 2

\* word_t: typedef uint32_t word_t
WordBits == 0 .. (BITS_PER_WORD - 1)
ZeroWord == [b \in WordBits |-> 0]
OnesWord == [b \in WordBits |-> 1]

\* the word_t holding the natural number x < 2^31
WordOf(x) == [b \in WordBits |-> IF b < 31 THEN BitOf(x, b) ELSE 0]

\* w >> n on a uint32_t, 0 <= n < 32: zeros come in from the top
Shr32(w, n) == [b \in WordBits |-> IF b + n <= 31 THEN w[b + n] ELSE 0]

\* w << n on a uint32_t, 0 <= n < 32: bits shifted past bit 31 are lost
Shl32(w, n) == [b \in WordBits |-> IF b >= n THEN w[b - n] ELSE 0]

\* conversion of a uint32_t to uint16_t keeps the low 16 bits
ToU16(w) == [b \in 0 .. 15 |-> w[b]]

\* x | y on 16 kept bits
Or16(x, y) == [b \in 0 .. 15 |-> IF x[b] = 1 \/ y[b] = 1 THEN 1 ELSE 0]

\* the result leaves its top two bits in place (mask 0xFFFF)
Mask14_NoMask(adc) == adc

\* adc & 0x3FFFu: bits 14 and 15 are cleared
Mask14(adc) == [b \in 0 .. 15 |-> IF b < BITS_PER_ADC THEN adc[b] ELSE 0]

\* the number a uint16_t stands for
RECURSIVE SumBits(_, _, _)
SumBits(x, lo, hi) ==
    IF lo > hi THEN 0 ELSE x[lo] * Pow2(lo) + SumBits(x, lo + 1, hi)
U16Value(x) == SumBits(x, 0, 15)

Min(a, b) == IF a < b THEN a ELSE b

(***************************************************************************)
(* The frames the model starts from                                        *)
(***************************************************************************)
\* 14-bit sample values
AdcValues == 0 .. 16383

\* the i-th of the 256 chosen sample values of pattern p
SampleValue(p, i) == (((p.mul * 5813) % 16384) * i + ((p.off * 16383) % 16384)) % 16384

Patterns == [mul : 0 .. MaxMul, off : 0 .. MaxOff]

\* payload word w of the frame whose sample i lies at payload bits 14*i .. 14*i+13
PackedWord(p, w) ==
    [b \in WordBits |->
        LET pos == BITS_PER_WORD * w + b
        IN  BitOf(SampleValue(p, pos \div BITS_PER_ADC), pos % BITS_PER_ADC)]

PackedWords(p) == [w \in 0 .. (NUM_ADC_WORDS - 1) |-> PackedWord(p, w)]

\* 32-bit header values: 0, 0xFFFFFFFF, 1, 0xFFFFFFFE, 2, ...
TsVal(k) ==
    [b \in WordBits |->
        IF k % 2 = 0 THEN WordOf(k \div 2)[b] ELSE 1 - WordOf(k \div 2)[b]]

\* contents of the words the accessors never look at
FillWord(f) == [b \in WordBits |-> IF f = 0 THEN 0 ELSE IF b % f = 0 THEN 1 ELSE 0]

(***************************************************************************)
(* State                                                                   *)
(***************************************************************************)
VARIABLES
    header,     \* struct Header, one word_t per 32 bits of bitfields
    adc_words,  \* word_t adc_words[112]
    trailer,    \* struct Trailer
    ndebug,     \* TRUE when the build defines NDEBUG (assert() compiles to nothing)
    chosen,     \* the sample pattern the payload was packed from
    call,       \* the last accessor call: op, its arguments, the index given to get_adc
    outcome,    \* how that call ended
    reads       \* the indices of adc_words that call read

vars == <<header, adc_words, trailer, ndebug, chosen, call, outcome, reads>>

Zero64 == [b \in 0 .. 63 |-> 0]

NoCall == [op |-> "none", femb |-> 0, i |-> 0, flat |-> 0]
NoOutcome == [kind |-> "none", val |-> 0, ts |-> Zero64]

HeaderOf(f, t1, t2) ==
    [word0 |-> FillWord(f), wib_code_2 |-> FillWord(f),
     timestamp_1 |-> TsVal(t1), timestamp_2 |-> TsVal(t2)]

TrailerOf(f) == [word0 |-> FillWord(f), word1 |-> FillWord(f + 1)]

InitFrame(p, f, t1, t2) ==
    /\ header = HeaderOf(f, t1, t2)
    /\ adc_words = PackedWords(p)
    /\ trailer = TrailerOf(f)
    /\ chosen = p
    /\ call = NoCall
    /\ outcome = NoOutcome
    /\ reads = {}

Init ==
    /\ ndebug \in BOOLEAN
    /\ \E p \in Patterns :
          LET f == p.mul + p.off IN InitFrame(p, f, f + 1, f + 2)

(***************************************************************************)
(* get_adc                                                                 *)
(***************************************************************************)
\* the range check lets index 256 through
InRange_OffByOne(i) == ~(i < 0 \/ i > MAX_ADC_INDEX + 1)

\* if(i<0 || i>255) throw std::out_of_range(...)
InRange(i) == ~(i < 0 \/ i > MAX_ADC_INDEX)

\* int word_index=BITS_PER_ADC*i/BITS_PER_WORD;
WordIndex(i) == (BITS_PER_ADC * i) \div BITS_PER_WORD

\* int first_bit_position=(BITS_PER_ADC*i)%BITS_PER_WORD;
FirstBitPosition(i) == (BITS_PER_ADC * i) % BITS_PER_WORD

\* int bits_from_first_word=std::min(BITS_PER_ADC, BITS_PER_WORD-first_bit_position);
BitsFromFirstWord(i) == Min(BITS_PER_ADC, BITS_PER_WORD - FirstBitPosition(i))

\* if(bits_from_first_word < BITS_PER_WORD): the guard of the second read
NeedsSecondWord(i) == BitsFromFirstWord(i) < BITS_PER_WORD

\* adc_words[k]; k = 112 is one past the array, and what such a read yields is
\* not defined by the language: oob stands for whatever word it produces
ReadWord(words, oob, k) == IF k \in DOMAIN words THEN words[k] ELSE oob

\* what reading one past adc_words may yield: the word laid out after the array
\* (the trailer's first word), or any other word
OobWords == {trailer.word0, ZeroWord, OnesWord}

Thrown(rd) == [kind |-> "out_of_range", val |-> 0, reads |-> rd]
Aborted(rd) == [kind |-> "abort", val |-> 0, reads |-> rd]
Returned(v, rd) == [kind |-> "value", val |-> v, reads |-> rd]

\* uint16_t get_adc(int i), run on payload words in a build with (nd) or without
\* NDEBUG: how it ends, the value it returns, and the payload indices it reads
GetAdcRun(words, nd, oob, i) ==
    IF ~InRange(i) THEN Thrown({})
    ELSE
      LET word_index == WordIndex(i)
          first_bit_position == FirstBitPosition(i)
          bits_from_first_word == BitsFromFirstWord(i)
      IN
        IF ~nd /\ ~(word_index < NUM_ADC_WORDS) THEN Aborted({})
        ELSE
          LET adc0 == ToU16(Shr32(ReadWord(words, oob, word_index), first_bit_position))
          IN
            IF NeedsSecondWord(i) THEN
              IF ~nd /\ ~(word_index + 1 < NUM_ADC_WORDS) THEN Aborted({word_index})
              ELSE
                LET adc1 == Or16(adc0,
                                 ToU16(Shl32(ReadWord(words, oob, word_index + 1),
                                             bits_from_first_word)))
                IN  Returned(U16Value(Mask14(adc1)), {word_index, word_index + 1})
            ELSE Returned(U16Value(Mask14(adc0)), {word_index})

OutcomeOf(r) == [kind |-> r.kind, val |-> r.val, ts |-> Zero64]

\* the caller is between two calls
Idle == call.op = "none"

AdcArgs == (0 - ArgSlack) .. (MAX_ADC_INDEX + ArgSlack)

\* the accessors leave the frame and the build as they are
FrameUnchanged == UNCHANGED <<header, adc_words, trailer, ndebug, chosen>>

CallGetAdc(op, femb, i, flat) ==
    \E oob \in OobWords :
        LET r == GetAdcRun(adc_words, ndebug, oob, flat)
        IN  /\ call' = [op |-> op, femb |-> femb, i |-> i, flat |-> flat]
            /\ outcome' = OutcomeOf(r)
            /\ reads' = r.reads

\* get_adc writes the masked sample back over the first word it read
GetAdc_WritesBack ==
    /\ Idle
    /\ \E i \in AdcArgs :
        /\ CallGetAdc("get_adc", 0, i, i)
        /\ adc_words' = IF InRange(i) /\ outcome'.kind = "value"
                        THEN [adc_words EXCEPT ![WordIndex(i)] = WordOf(outcome'.val)]
                        ELSE adc_words
    /\ UNCHANGED <<header, trailer, ndebug, chosen>>

GetAdc ==
    /\ Idle
    /\ \E i \in AdcArgs : CallGetAdc("get_adc", 0, i, i)
    /\ FrameUnchanged

(***************************************************************************)
(* get_u, get_v, get_x                                                     *)
(***************************************************************************)
Fembs == -1 .. 2
UArgs == (0 - ArgSlack) .. (U_CHANNELS - 1 + ArgSlack)
VArgs == (0 - ArgSlack) .. (V_CHANNELS - 1 + ArgSlack)
XArgs == (0 - ArgSlack) .. (X_CHANNELS - 1 + ArgSlack)

\* get_u: get_adc(128*femb + i)
UIndex(femb, i) == 128 * femb + i

\* get_v: get_adc(128*femb + 40 + i)
VIndex(femb, i) == 128 * femb + 40 + i

\* the X group starts where the V group starts
XIndex_OneForty(femb, i) == 128 * femb + 40 + i

\* get_x: get_adc(128*femb + 40 + 40 + i)
XIndex(femb, i) == 128 * femb + 40 + 40 + i

GetU ==
    /\ Idle
    /\ \E femb \in Fembs, i \in UArgs : CallGetAdc("get_u", femb, i, UIndex(femb, i))
    /\ FrameUnchanged

GetV ==
    /\ Idle
    /\ \E femb \in Fembs, i \in VArgs : CallGetAdc("get_v", femb, i, VIndex(femb, i))
    /\ FrameUnchanged

GetX ==
    /\ Idle
    /\ \E femb \in Fembs, i \in XArgs : CallGetAdc("get_x", femb, i, XIndex(femb, i))
    /\ FrameUnchanged

(***************************************************************************)
(* timestamp                                                               *)
(***************************************************************************)
\* the shift is done in 32 bits: every bit of timestamp_2 is shifted out
TimestampOf_NoCast(h) == [b \in 0 .. 63 |-> IF b < 32 THEN h.timestamp_1[b] ELSE 0]

\* header.timestamp_1 | ((uint64_t)header.timestamp_2 << 32)
TimestampOf(h) ==
    LET wide1 == [b \in 0 .. 63 |-> IF b < 32 THEN h.timestamp_1[b] ELSE 0]
        wide2 == [b \in 0 .. 63 |-> IF b < 32 THEN h.timestamp_2[b] ELSE 0]
        shifted == [b \in 0 .. 63 |-> IF b >= 32 THEN wide2[b - 32] ELSE 0]
    IN  [b \in 0 .. 63 |-> IF wide1[b] = 1 \/ shifted[b] = 1 THEN 1 ELSE 0]

Timestamp ==
    /\ Idle
    /\ call' = [op |-> "timestamp", femb |-> 0, i |-> 0, flat |-> 0]
    /\ outcome' = [kind |-> "timestamp", val |-> 0, ts |-> TimestampOf(header)]
    /\ reads' = {}
    /\ FrameUnchanged

(***************************************************************************)
(* Return to the caller                                                    *)
(***************************************************************************)
\* The accessor has returned or thrown: its locals are gone and the caller goes
\* on to its next call.  A failed assert() has ended the process: no return.
Return ==
    /\ ~Idle
    /\ outcome.kind # "abort"
    /\ call' = NoCall
    /\ outcome' = NoOutcome
    /\ reads' = {}
    /\ FrameUnchanged

(***************************************************************************)
(* Specifications                                                          *)
(***************************************************************************)
Next == GetAdc \/ GetU \/ GetV \/ GetX \/ Timestamp \/ Return

Spec == Init /\ [][Next]_vars

\* frames that differ in their timestamp words, read by timestamp()
InitTs ==
    /\ ndebug \in BOOLEAN
    /\ \E t1 \in 0 .. MaxTs, t2 \in 0 .. MaxTs :
          InitFrame([mul |-> 1, off |-> 0], (t1 + t2) % 3, t1, t2)

NextTs == Timestamp \/ Return

SpecTs == InitTs /\ [][NextTs]_vars

(***************************************************************************)
(* Vocabulary of the properties                                            *)
(***************************************************************************)
AdcOps == {"get_adc", "get_u", "get_v", "get_x"}

\* the last call ran get_adc on an index in 0..255
InRangeAdcCall == call.op \in AdcOps /\ call.flat \in 0 .. MAX_ADC_INDEX

\* the field of sample i straddles two payload words
Straddles(i) == (BITS_PER_ADC * i) % BITS_PER_WORD > BITS_PER_WORD - BITS_PER_ADC

\* C1: a payload packed from values v_0..v_255 at bit offsets 14*i gives
\* get_adc(i) = v_i for every i in 0..255, straddling and last indices included.
C1_RoundTrip ==
    InRangeAdcCall =>
        /\ outcome.kind = "value"
        /\ outcome.val = SampleValue(chosen, call.flat)

\* C2: for every i in 0..255 get_adc(i) returns a value, and it is in 0..16383.
C2_ValueInRange ==
    InRangeAdcCall =>
        /\ outcome.kind = "value"
        /\ outcome.val \in AdcValues

\* C3: for every i < 0 and every i > 255 get_adc(i) ends with the out-of-range
\* error and has read no payload word, inside or beyond adc_words.
C3_OutOfRangeThrows ==
    (call.op \in AdcOps /\ (call.flat < 0 \/ call.flat > MAX_ADC_INDEX)) =>
        /\ outcome.kind = "out_of_range"
        /\ reads = {}

C3_Witness ==
    /\ call.op = "get_adc"
    /\ call.i = MAX_ADC_INDEX + 1
    /\ outcome.kind = "out_of_range"

\* C4: for every i in 0..255 no assertion of get_adc fails: word_index is at
\* most 111, and every payload index read is at most 111.
C4_AssertionsHold ==
    InRangeAdcCall =>
        /\ outcome.kind # "abort"
        /\ WordIndex(call.flat) <= NUM_ADC_WORDS - 1
        /\ \A k \in reads : k <= NUM_ADC_WORDS - 1

\* C9: get_adc(i) reads payload[word_index+1] only when the field straddles a
\* word boundary; otherwise it reads payload[word_index] alone.
C9_SecondWordOnlyWhenStraddling ==
    InRangeAdcCall =>
        /\ (WordIndex(call.flat) + 1) \in reads => Straddles(call.flat)
        /\ ~Straddles(call.flat) => reads \subseteq {WordIndex(call.flat)}

\* what the last call gave back to its caller
Result(r) == <<r.kind, r.val>>

\* the last call ended as get_adc(k) ends on this frame, whatever a read past
\* the array yields
SameAsGetAdc(k) ==
    \A oob \in OobWords : Result(outcome) = Result(GetAdcRun(adc_words, ndebug, oob, k))

ValidFembs == {0, 1}
ValidU == call.op = "get_u" /\ call.femb \in ValidFembs /\ call.i \in 0 .. (U_CHANNELS - 1)
ValidV == call.op = "get_v" /\ call.femb \in ValidFembs /\ call.i \in 0 .. (V_CHANNELS - 1)
ValidX == call.op = "get_x" /\ call.femb \in ValidFembs /\ call.i \in 0 .. (X_CHANNELS - 1)

\* C5: for femb in {0,1}, get_u(femb,i), get_v(femb,i) and get_x(femb,i) end as
\* get_adc(128*femb+i), get_adc(128*femb+40+i) and get_adc(128*femb+80+i) do,
\* for i in 0..39, 0..39 and 0..47, and each of these calls returns a sample.
C5_WrappersReturnSamples ==
    /\ ValidU => (SameAsGetAdc(128 * call.femb + call.i) /\ outcome.kind = "value")
    /\ ValidV => (SameAsGetAdc(128 * call.femb + 40 + call.i) /\ outcome.kind = "value")
    /\ ValidX => (SameAsGetAdc(128 * call.femb + 80 + call.i) /\ outcome.kind = "value")

\* C6: timestamp() is timestamp_1 + timestamp_2 * 2^32 in 64 bits: its low 32
\* bits are timestamp_1, its high 32 bits are timestamp_2, none lost;
\* timestamp_1 = 0xFFFFFFFF and timestamp_2 = 1 give 0x1FFFFFFFF.
C6_Timestamp ==
    call.op = "timestamp" =>
        /\ outcome.kind = "timestamp"
        /\ \A b \in WordBits :
              /\ outcome.ts[b] = header.timestamp_1[b]
              /\ outcome.ts[BITS_PER_WORD + b] = header.timestamp_2[b]
        /\ (header.timestamp_1 = OnesWord /\ header.timestamp_2 = WordOf(1)) =>
              outcome.ts = [b \in 0 .. 63 |-> IF b <= 32 THEN 1 ELSE 0]

C6_Witness ==
    /\ call.op = "timestamp"
    /\ header.timestamp_1 = OnesWord
    /\ header.timestamp_2 = WordOf(1)
    /\ outcome.ts[32] = 1

\* the channels of a frame: front-end board, group, index within the group
GroupSize(g) == IF g = "get_u" THEN U_CHANNELS ELSE IF g = "get_v" THEN V_CHANNELS ELSE X_CHANNELS
Channels ==
    {c \in [femb : ValidFembs, group : {"get_u", "get_v", "get_x"}, i : 0 .. (X_CHANNELS - 1)] :
        c.i < GroupSize(c.group)}

\* the flat index the accessor of the channel's group hands to get_adc
FlatOf(c) ==
    IF c.group = "get_u" THEN UIndex(c.femb, c.i)
    ELSE IF c.group = "get_v" THEN VIndex(c.femb, c.i)
    ELSE XIndex(c.femb, c.i)

\* the place of a channel in the order FEMB0-U, FEMB0-V, FEMB0-X, FEMB1-U, ...
PlaceOf(c) ==
    c.femb * (U_CHANNELS + V_CHANNELS + X_CHANNELS)
    + (IF c.group = "get_u" THEN 0
       ELSE IF c.group = "get_v" THEN U_CHANNELS
       ELSE U_CHANNELS + V_CHANNELS)
    + c.i

ThisChannel == [femb |-> call.femb, group |-> call.op, i |-> call.i]

\* C7: the channels map one-to-one onto the flat indices 0..255, in the order
\* FEMB0-U, FEMB0-V, FEMB0-X, FEMB1-U, FEMB1-V, FEMB1-X, 128 per femb, no index
\* shared by two groups.
C7_ChannelPartition ==
    /\ (ValidU \/ ValidV \/ ValidX) =>
          /\ call.flat \in 0 .. MAX_ADC_INDEX
          /\ call.flat = PlaceOf(ThisChannel)
          /\ call.flat \in (128 * call.femb) .. (128 * call.femb + 127)
          /\ \A c \in Channels : FlatOf(c) = call.flat => c = ThisChannel
    /\ Idle =>
          \A k \in 0 .. MAX_ADC_INDEX : \E c \in Channels : FlatOf(c) = k

C7_Witness ==
    /\ ValidX
    /\ call.femb = 1
    /\ call.i = X_CHANNELS - 1
    /\ call.flat = MAX_ADC_INDEX

\* C8: no accessor call, returning or failing, changes the header, a payload
\* word or the trailer, and the outcome of a call is fixed by the frame and
\* the argument.
C8_ReadOnly ==
    /\ [][UNCHANGED <<header, adc_words, trailer>>]_vars
    /\ [](call.op \in AdcOps => SameAsGetAdc(call.flat))
    /\ [](call.op = "timestamp" => outcome.ts = TimestampOf(header))

C8_Witness ==
    /\ call.op = "get_adc"
    /\ call.i = 2
    /\ outcome.kind = "value"
    /\ adc_words[0] = PackedWord(chosen, 0)
    /\ adc_words[1] = PackedWord(chosen, 1)

\* payload bit pos belongs to the field of sample i
InField(pos, i) == pos \in (BITS_PER_ADC * i) .. (BITS_PER_ADC * i + BITS_PER_ADC - 1)

\* words with every bit of word w outside the field of sample i inverted
FlipOutside(words, w, i) ==
    [words EXCEPT ![w] =
        [b \in WordBits |-> IF InField(BITS_PER_WORD * w + b, i) THEN @[b] ELSE 1 - @[b]]]

\* words with every bit outside the field of sample i inverted
FlipAllOutside(words, i) ==
    [w \in DOMAIN words |->
        [b \in WordBits |->
            IF InField(BITS_PER_WORD * w + b, i) THEN words[w][b] ELSE 1 - words[w][b]]]

\* what the word after the array may hold in another frame
OtherOobWords == OobWords \cup {[b \in WordBits |-> 1 - trailer.word0[b]]}

\* get_adc(i) ends on the payload words other, followed in memory by the word
\* oob, as the last call ended
EndsAlike(other, oob, i) == Result(GetAdcRun(other, ndebug, oob, i)) = Result(outcome)

\* C10: get_adc(i), i in 0..255, ends the same way on any two frames that
\* agree on payload bits 14*i..14*i+13, whatever the other bits contain.
C10_Independence ==
    (call.op = "get_adc" /\ call.i \in 0 .. MAX_ADC_INDEX) =>
        /\ \A w \in DOMAIN adc_words :
              EndsAlike(FlipOutside(adc_words, w, call.i), trailer.word0, call.i)
        /\ \A oob \in OtherOobWords :
              /\ EndsAlike(FlipAllOutside(adc_words, call.i), oob, call.i)
              /\ EndsAlike(adc_words, oob, call.i)

C10_Witness ==
    /\ call.op = "get_adc"
    /\ Straddles(call.i)
    /\ outcome.kind = "value"
    /\ outcome.val # 0
    /\ FlipAllOutside(adc_words, call.i) # adc_words

====
